---- MODULE Spec2Model ----
(***************************************************************************)
(* Model of compute_radius_from_series (folium_example.py, lines 32-53),   *)
(* the radius normalisation of the bus-stop viewer.  The arguments of a    *)
(* call are drawn from small sets that hold the ones the script passes     *)
(* (lines 11-14, 65-67) and the defaults of the signature (line 32).       *)
(*                                                                         *)
(* Numbers.  The code computes in float64; the model computes exactly.     *)
(* A raw value is an integer, a median of raw values is a multiple of 1/2, *)
(* and a quantile taken at an integer percentage is a multiple of 1/200:   *)
(* every value of the series s is therefore kept as the integer            *)
(* Unit * value.  A normalised score and a radius are fractions, kept in   *)
(* lowest terms as [num, den].  NaN is <<>> and a present number v is      *)
(* <<v>>.  An entry of the input batch is <<>> when it is not a number     *)
(* (None, text) and <<n, d>> when it is the number n / d.                  *)
(*                                                                         *)
(* Logarithm.  norm / maxv is a ratio of two logarithms, so the base of    *)
(* the logarithm cancels.  log1p is modelled as log2(1 + x) with the       *)
(* mantissa interpolated linearly between the powers of two: exact where   *)
(* 1 + x is a power of two, 0 at x = 0, strictly increasing, and within    *)
(* 0.09 of log2(1 + x) elsewhere.                                          *)
(*                                                                         *)
(* pandas and numpy are not part of the repository: median, quantile,      *)
(* fillna, clip, min and max follow their documented behaviour (NaN        *)
(* skipped by median, NaN statistics for the empty series, a NaN threshold *)
(* ignored by clip, linear interpolation in quantile).                     *)
(***************************************************************************)
EXTENDS Integers, Sequences, FiniteSets

\* ---------------------------------------------------------------- bounds
MaxLen == 4          \* longest batch
MaxVal == 3          \* raw values are 1..MaxVal, the outlier, or missing

\* ------------------------------------------------------ program constants
SCALE == "log"
MIN_R == 1
MAX_R == 10
CLIP_PCT == 2
DEFAULT_MIN_R == 3
DEFAULT_MAX_R == 16

\* ------------------------------------------------------------ arithmetic
Unit == 2 * 100
LogDepth == 7                       \* 2^LogDepth exceeds 1 + every shifted value
LogUnit == Unit * (2 ^ LogDepth)    \* the integer LogUnit * log1p(x) is exact

NaN == <<>>
Num(v) == <<v>>
Val(x) == x[1]
isnan(x) == x = NaN

RECURSIVE GCD(_, _)
GCD(a, b) == IF b = 0 THEN a ELSE GCD(b, a % b)

\* the fraction n / d, d > 0, in lowest terms
Frac(n, d) ==
    LET g == GCD(IF n < 0 THEN -n ELSE n, d)
    IN  [num |-> n \div g, den |-> d \div g]

\* comparison over the least common denominator
FracLeq(x, y) ==
    LET g == GCD(x.den, y.den)
    IN  x.num * (y.den \div g) <= y.num * (x.den \div g)
FracLt(x, y) ==
    LET g == GCD(x.den, y.den)
    IN  x.num * (y.den \div g) < y.num * (x.den \div g)

\* ------------------------------------------------------ series operations
\* an entry of the input batch
Missing == <<>>
Raw(n, d) == <<n, d>>

\* pd.to_numeric(series, errors="coerce"): a number stays, anything else is NaN
to_numeric(series) ==
    [i \in DOMAIN series |->
        IF series[i] = Missing THEN NaN
        ELSE Num((Unit * series[i][1]) \div series[i][2])]

RECURSIVE Insert(_, _)
Insert(x, sorted) ==
    IF sorted = <<>> THEN <<x>>
    ELSE IF x <= Head(sorted) THEN <<x>> \o sorted
         ELSE <<Head(sorted)>> \o Insert(x, Tail(sorted))

RECURSIVE Sorted(_)
Sorted(s) == IF s = <<>> THEN <<>> ELSE Insert(Head(s), Sorted(Tail(s)))

RECURSIVE dropna(_)
dropna(s) ==
    IF s = <<>> THEN <<>>
    ELSE IF isnan(Head(s)) THEN dropna(Tail(s))
         ELSE <<Val(Head(s))>> \o dropna(Tail(s))

\* Series.median(): NaN entries are skipped; NaN when nothing is left
median(s) ==
    LET a == Sorted(dropna(s))
        n == Len(a)
    IN  IF n = 0 THEN NaN
        ELSE IF n % 2 = 1 THEN Num(a[(n + 1) \div 2])
             ELSE Num((a[n \div 2] + a[n \div 2 + 1]) \div 2)

\* Series.fillna(value)
fillna(s, value) ==
    [i \in DOMAIN s |-> IF isnan(s[i]) THEN value ELSE Val(s[i])]

\* Series.min() / Series.max(): NaN for the empty series
RECURSIVE SeqMin(_)
SeqMin(s) ==
    IF Len(s) = 1 THEN Head(s)
    ELSE LET m == SeqMin(Tail(s)) IN IF Head(s) < m THEN Head(s) ELSE m

RECURSIVE SeqMax(_)
SeqMax(s) ==
    IF Len(s) = 1 THEN Head(s)
    ELSE LET m == SeqMax(Tail(s)) IN IF Head(s) > m THEN Head(s) ELSE m

min(s) == IF s = <<>> THEN NaN ELSE Num(SeqMin(s))
max(s) == IF s = <<>> THEN NaN ELSE Num(SeqMax(s))

\* NaN > 0 is False
gt0(x) == ~isnan(x) /\ Val(x) > 0

\* Series.quantile(pct / 100): linear interpolation between order statistics
quantile(s, pct) ==
    LET a == Sorted(s)
        n == Len(a)
        pos == pct * (n - 1)          \* 100 * (q * (n - 1))
        i == pos \div 100
        g == pos % 100
    IN  IF n = 0 THEN NaN
        ELSE IF g = 0 THEN Num(a[i + 1])
             ELSE Num(a[i + 1] + (g * (a[i + 2] - a[i + 1])) \div 100)

\* Series.clip(lo, hi); a NaN threshold clips nothing
clip(s, lo, hi) ==
    [i \in DOMAIN s |->
        LET x == s[i]
            y == IF ~isnan(lo) /\ x < Val(lo) THEN Val(lo) ELSE x
        IN  IF ~isnan(hi) /\ y > Val(hi) THEN Val(hi) ELSE y]

\* floor(log2(w / Unit)) for w >= Unit
RECURSIVE Log2Floor(_)
Log2Floor(w) == IF w < 2 * Unit THEN 0 ELSE 1 + Log2Floor(w \div 2)

\* LogUnit * log1p(x / Unit)
log1p(x) ==
    LET w == Unit + x
        j == Log2Floor(w)
    IN  j * LogUnit + (w - Unit * (2 ^ j)) * (2 ^ (LogDepth - j))

\* ------------------------------------------------- compute_radius_from_series
\* lines 33-35: coerce, then fill NaN with the median, or with 0 when the
\* median is itself NaN
\* faulty variants of impute: fill with 0 whatever the median is; drop the
\* missing entries instead of filling them
impute_zero(series) == fillna(to_numeric(series), 0)

impute_dropna(series) == dropna(to_numeric(series))

impute(series) ==
    LET t == to_numeric(series)
        m == median(t)
    IN  fillna(t, IF ~isnan(m) THEN Val(m) ELSE 0)

\* faulty variant of winsorize: the upper end of the guard is inclusive
winsorize_upto50(s, clip_pct) ==
    IF clip_pct # 0 /\ (0 < clip_pct /\ clip_pct <= 50)
    THEN LET lo == quantile(s, clip_pct)
             hi == quantile(s, 100 - clip_pct)
         IN  clip(s, lo, hi)
    ELSE s

\* lines 38-41: winsorize; hi = quantile(1 - clip_pct / 100)
winsorize(s, clip_pct) ==
    IF clip_pct # 0 /\ (0 < clip_pct /\ clip_pct < 50)
    THEN LET lo == quantile(s, clip_pct)
             hi == quantile(s, 100 - clip_pct)
         IN  clip(s, lo, hi)
    ELSE s

\* faulty variants of log_norm: the values are not shifted to a minimum of 0;
\* the all-equal batch gets the midpoint
log_norm_noshift(s) ==
    LET norm == [i \in DOMAIN s |-> log1p(s[i])]
        maxv == max(norm)
    IN  IF gt0(maxv)
        THEN [i \in DOMAIN s |-> Frac(norm[i], Val(maxv))]
        ELSE [i \in DOMAIN s |-> Frac(0, 1)]

log_norm_midpoint(s) ==
    LET shifted == [i \in DOMAIN s |-> s[i] - Val(min(s))]
        norm == [i \in DOMAIN s |-> log1p(shifted[i])]
        maxv == max(norm)
    IN  IF gt0(maxv)
        THEN [i \in DOMAIN s |-> Frac(norm[i], Val(maxv))]
        ELSE [i \in DOMAIN s |-> Frac(1, 2)]

\* lines 45-48
log_norm(s) ==
    LET shifted == [i \in DOMAIN s |-> s[i] - Val(min(s))]
        norm == [i \in DOMAIN s |-> log1p(shifted[i])]
        maxv == max(norm)
    IN  IF gt0(maxv)
        THEN [i \in DOMAIN s |-> Frac(norm[i], Val(maxv))]
        ELSE [i \in DOMAIN s |-> Frac(0, 1)]

\* faulty variants of linear_norm: the numerator is not shifted; the all-equal
\* batch gets 0
linear_norm_noshift(s) ==
    LET denom == IF s = <<>> THEN NaN ELSE Num(Val(max(s)) - Val(min(s)))
    IN  IF gt0(denom)
        THEN [i \in DOMAIN s |-> Frac(s[i], Val(denom))]
        ELSE [i \in DOMAIN s |-> Frac(1, 2)]

linear_norm_zero(s) ==
    LET denom == IF s = <<>> THEN NaN ELSE Num(Val(max(s)) - Val(min(s)))
    IN  IF gt0(denom)
        THEN [i \in DOMAIN s |-> Frac(s[i] - Val(min(s)), Val(denom))]
        ELSE [i \in DOMAIN s |-> Frac(0, 1)]

\* lines 50-51
linear_norm(s) ==
    LET denom == IF s = <<>> THEN NaN ELSE Num(Val(max(s)) - Val(min(s)))
    IN  IF gt0(denom)
        THEN [i \in DOMAIN s |-> Frac(s[i] - Val(min(s)), Val(denom))]
        ELSE [i \in DOMAIN s |-> Frac(1, 2)]

\* faulty variant of normalize: the branches are swapped, so that anything but
\* "linear" is scaled logarithmically
normalize_log_default(s, scale) ==
    IF scale = "linear" THEN linear_norm(s) ELSE log_norm(s)

\* lines 44-51: anything but "log" takes the else branch
normalize(s, scale) ==
    IF scale = "log" THEN log_norm(s) ELSE linear_norm(s)

\* faulty variant of to_radius: the score is taken from the top
to_radius_inverted(norm, min_r, max_r) ==
    [i \in DOMAIN norm |->
        Frac(max_r * norm[i].den - norm[i].num * (max_r - min_r), norm[i].den)]

\* line 53: min_r + norm * (max_r - min_r)
to_radius(norm, min_r, max_r) ==
    [i \in DOMAIN norm |->
        Frac(min_r * norm[i].den + norm[i].num * (max_r - min_r), norm[i].den)]

\* faulty variant of compute_radius_from_series: the linear branch takes its
\* minimum and its denominator from the series as it was before clipping
compute_radius_raw_range(series, scale, min_r, max_r, clip_pct) ==
    LET f == impute(series)
        c == winsorize(f, clip_pct)
        denom == IF f = <<>> THEN NaN ELSE Num(Val(max(f)) - Val(min(f)))
        norm == IF scale = "log" THEN log_norm(c)
                ELSE IF gt0(denom)
                     THEN [i \in DOMAIN c |-> Frac(c[i] - Val(min(f)), Val(denom))]
                     ELSE [i \in DOMAIN c |-> Frac(1, 2)]
    IN  to_radius(norm, min_r, max_r)

\* lines 32-53
compute_radius_from_series(series, scale, min_r, max_r, clip_pct) ==
    to_radius(normalize(winsorize(impute(series), clip_pct), scale), min_r, max_r)

\* ------------------------------------------------------------------ inputs
RawValues == {Missing} \cup {Raw(v, 1) : v \in (1..MaxVal) \cup {100}}

RECURSIVE SeqsUpTo(_)
SeqsUpTo(n) ==
    IF n = 0 THEN {<<>>}
    ELSE LET shorter == SeqsUpTo(n - 1)
         IN  shorter \cup
             {Append(q, v) : q \in {r \in shorter : Len(r) = n - 1}, v \in RawValues}

Batches == SeqsUpTo(MaxLen)
Scales == {SCALE, "linear", "sqrt"}
ClipPcts == {0, CLIP_PCT, 40, 50, 60}
RadiusBounds == {<<MIN_R, MAX_R>>, <<DEFAULT_MIN_R, DEFAULT_MAX_R>>, <<5, 5>>}

\* ------------------------------------------------------------ state machine
VARIABLES
    series, scale, min_r, max_r, clip_pct,   \* the arguments of the call
    filled,                                  \* s after line 35
    s,                                       \* s after line 41
    radius,                                  \* the returned series
    pc                                       \* "call" or "returned"

vars == <<series, scale, min_r, max_r, clip_pct, filled, s, radius, pc>>

Init ==
    /\ series \in Batches
    /\ scale \in Scales
    /\ \E b \in RadiusBounds : min_r = b[1] /\ max_r = b[2]
    /\ clip_pct \in ClipPcts
    /\ filled = <<>>
    /\ s = <<>>
    /\ radius = <<>>
    /\ pc = "call"

Call ==
    /\ pc = "call"
    /\ filled' = impute(series)
    /\ s' = winsorize(impute(series), clip_pct)
    /\ radius' = compute_radius_from_series(series, scale, min_r, max_r, clip_pct)
    /\ pc' = "returned"
    /\ UNCHANGED <<series, scale, min_r, max_r, clip_pct>>

Next == Call

Spec == Init /\ [][Next]_vars

\* ------------------------------------------------------------------ claims
Returned == pc = "returned"
AllEqual(q) == \A i, j \in DOMAIN q : q[i] = q[j]
Whole(n) == Frac(n, 1)

\* the radii of the same call with the winsorization step left out
Unclipped == to_radius(normalize(impute(series), scale), min_r, max_r)

\* the largest entry of the batch, pulled down by the clipping
PulledDown(i) ==
    /\ i \in DOMAIN filled
    /\ filled[i] = Val(max(filled))
    /\ s[i] < filled[i]

\* the batch with every missing entry replaced by the median of the others,
\* or by 0 when every entry is missing
MedianOrZero ==
    LET m == median(to_numeric(series))
    IN  IF isnan(m) THEN Raw(0, 1) ELSE Raw(Val(m), Unit)
Replaced ==
    [i \in DOMAIN series |-> IF series[i] = Missing THEN MedianOrZero ELSE series[i]]

\* C1: every returned radius lies in [min_r, max_r], whatever the batch, the
\* scale and clip_pct.
C1_RadiusInBounds ==
    Returned =>
        \A i \in DOMAIN radius :
            FracLeq(Whole(min_r), radius[i]) /\ FracLeq(radius[i], Whole(max_r))

C1_Witness ==
    /\ Returned
    /\ \E i, j, k \in DOMAIN radius :
        /\ radius[i] = Whole(min_r)
        /\ radius[k] = Whole(max_r)
        /\ FracLt(Whole(min_r), radius[j]) /\ FracLt(radius[j], Whole(max_r))

\* C2 as stated: for the batch [1, 2, 3, 100] with clip_pct = 2, the linear
\* scale, min_r = 1 and max_r = 10, the entry 100 gets a radius strictly below
\* the one it gets with the clipping skipped.
C2_Original ==
    ( /\ Returned
      /\ series = <<Raw(1, 1), Raw(2, 1), Raw(3, 1), Raw(100, 1)>>
      /\ clip_pct = 2 /\ scale = "linear" /\ min_r = 1 /\ max_r = 10 )
    => FracLt(radius[4], Unclipped[4])

\* C2 as amended: with the linear scale, the largest entry of a batch, once
\* the clipping has pulled it down, gets a radius that is never above the one
\* it gets with the clipping skipped, and that equals it (both are max_r)
\* unless the clipping left every value of the batch equal.
C2_ClippedMaxKeepsMaxRadius ==
    (Returned /\ scale = "linear") =>
        \A i \in DOMAIN radius :
            PulledDown(i) =>
                /\ FracLeq(radius[i], Unclipped[i])
                /\ Unclipped[i] = Whole(max_r)
                /\ ~AllEqual(s) => radius[i] = Unclipped[i]

C2_Witness ==
    /\ Returned
    /\ series = <<Raw(1, 1), Raw(2, 1), Raw(3, 1), Raw(100, 1)>>
    /\ clip_pct = 2 /\ scale = "linear" /\ min_r = 1 /\ max_r = 10
    /\ PulledDown(4)
    /\ radius[4] = Whole(10)
    /\ Unclipped[4] = Whole(10)

\* C3: the call returns a series as long as its input, also for the
\* all-missing and the all-equal batch; the empty batch gives the empty series.
C3_SameLength ==
    /\ Returned => Len(radius) = Len(series)
    /\ (Returned /\ series = <<>>) => radius = <<>>

C3_Witness ==
    /\ Returned
    /\ Len(series) = MaxLen
    /\ \A i \in DOMAIN series : series[i] = Missing
    /\ Len(radius) = MaxLen

C3_WitnessEmpty == Returned /\ series = <<>> /\ radius = <<>>

\* C4: the radii of a batch with missing entries are those of the batch with
\* each missing entry replaced by the median of the others (by 0 when all are
\* missing); a missing entry gets the radius of an entry that holds the median.
C4_ImputeBeforeClip ==
    Returned =>
        /\ radius = compute_radius_from_series(Replaced, scale, min_r, max_r, clip_pct)
        /\ \A i, j \in DOMAIN series :
            (series[i] = Missing /\ series[j] = MedianOrZero) => radius[i] = radius[j]

C4_Witness ==
    /\ Returned
    /\ series = <<Raw(1, 1), Raw(2, 1), Missing, Raw(3, 1)>>
    /\ MedianOrZero = Raw(2 * Unit, Unit)
    /\ radius[3] = radius[2]
    /\ radius[3] # radius[1] /\ radius[3] # radius[4]

\* C5: with the linear scale, a non-empty batch whose values are all equal
\* after imputation and clipping gets (min_r + max_r) / 2 everywhere.
C5_LinearAllEqualMidpoint ==
    (Returned /\ scale = "linear" /\ s # <<>> /\ AllEqual(s)) =>
        \A i \in DOMAIN radius : radius[i] = Frac(min_r + max_r, 2)

C5_Witness ==
    /\ Returned /\ scale = "linear" /\ min_r < max_r
    /\ Len(s) > 1 /\ AllEqual(s) /\ ~AllEqual(filled)
    /\ \A i \in DOMAIN radius : radius[i] = Frac(min_r + max_r, 2)

\* C6: with the log scale, a non-empty batch whose values are all equal after
\* imputation and clipping gets min_r everywhere.
C6_LogAllEqualMinR ==
    (Returned /\ scale = "log" /\ s # <<>> /\ AllEqual(s)) =>
        \A i \in DOMAIN radius : radius[i] = Whole(min_r)

C6_Witness ==
    /\ Returned /\ scale = "log" /\ min_r < max_r
    /\ Len(s) > 1 /\ AllEqual(s) /\ ~AllEqual(filled)
    /\ \A i \in DOMAIN radius : radius[i] = Whole(min_r)

\* C7: a clip_pct outside the open interval (0, 50) returns the radii of the
\* call with the winsorization step skipped.
C7_ClipDisabledOutsideRange ==
    (Returned /\ ~(0 < clip_pct /\ clip_pct < 50)) => radius = Unclipped

C7_Witness ==
    /\ Returned /\ clip_pct = 50
    /\ ~AllEqual(filled)
    /\ radius = Unclipped
    /\ radius # compute_radius_from_series(series, scale, min_r, max_r, CLIP_PCT)

\* C8: a scale that is neither "log" nor "linear" returns the radii of the
\* linear scale.
C8_UnknownScaleIsLinear ==
    (Returned /\ scale \notin {"log", "linear"}) =>
        radius = compute_radius_from_series(series, "linear", min_r, max_r, clip_pct)

C8_Witness ==
    /\ Returned /\ scale = "sqrt"
    /\ radius = compute_radius_from_series(series, "linear", min_r, max_r, clip_pct)
    /\ radius # compute_radius_from_series(series, "log", min_r, max_r, clip_pct)

\* C9: when the imputed and clipped values are not all equal, every entry that
\* holds the smallest value of the batch gets min_r and every entry that holds
\* the largest gets max_r, for every scale and clip_pct.
C9_ExtremesGetBounds ==
    (Returned /\ ~AllEqual(s)) =>
        \A i \in DOMAIN radius :
            /\ filled[i] = Val(min(filled)) => radius[i] = Whole(min_r)
            /\ filled[i] = Val(max(filled)) => radius[i] = Whole(max_r)

C9_Witness ==
    /\ Returned /\ scale = "log" /\ min_r < max_r
    /\ 0 < clip_pct /\ clip_pct < 50
    /\ \E i, j \in DOMAIN radius :
        /\ PulledDown(i) /\ radius[i] = Whole(max_r)
        /\ filled[j] = Val(min(filled)) /\ filled[j] < s[j] /\ radius[j] = Whole(min_r)

\* C10: within a batch the radii are ordered as the imputed values are, and
\* equal imputed values get equal radii.
C10_OrderPreserving ==
    Returned =>
        \A i, j \in DOMAIN radius :
            /\ filled[i] <= filled[j] => FracLeq(radius[i], radius[j])
            /\ filled[i] = filled[j] => radius[i] = radius[j]

C10_Witness ==
    /\ Returned /\ scale = "log"
    /\ \E i, j, k \in DOMAIN radius :
        /\ filled[i] < filled[j] /\ filled[j] < filled[k]
        /\ FracLt(radius[i], radius[j]) /\ FracLt(radius[j], radius[k])

====
